---- MODULE Spec2Model ----
(***************************************************************************)
(* A model of one run of discussion_parser.main: the contributor fetch,    *)
(* the cursor-driven search walks, process_and_save_discussion for every   *)
(* summary of every page, and the final concatenation of the collected     *)
(* LLM-ready Markdown texts.                                               *)
(*                                                                         *)
(* The platform (search responses, detail responses) and the file system   *)
(* (write failures) are the environment: their answers are drawn with \E.  *)
(***************************************************************************)
EXTENDS Integers, Sequences, FiniteSets, TLC

\* ------------------------------------------------------------------ bounds

\* Pages with summaries the platform serves within one run, over all walks.
MaxPages == 2

\* Discussion numbers of the repository.
Numbers == {1, 2}

\* End cursors the platform hands out; None is the absent cursor.
None == "None"

Cursors == {"c1", "c2"}

\* The createdAt of discussion n in the fetched details: the later number is
\* the older discussion here. A createdAt can also be missing or fail to
\* parse (lines 308-317): 0 stands for that.
CreatedAt(n) == 3 - n

CreatedAts(n) == {0, CreatedAt(n)}

\* The contributor lists the contributor fetch can return (logins only).
ContributorLists == {<<>>, <<"alice", "bob">>}

\* The numbers an earlier run into the same directory left files for.
PriorNumbers == {1}

\* Detail requests and file writes that fail within one run.
MaxFailures == 1

\* Texts collected for one concatenation, where the concatenation is checked
\* on its own, and the createdAt values they carry.
MaxTexts == 3

TextTimestamps == {1, 2, 3}

\* The largest number of a relative --since expression.
MaxSince == 2

\* The longest body format_body is tried on.
MaxBody == 4

\* The non-empty pages of summaries a search response can carry, each the
\* sequence of its summaries' numbers: 0 is a summary whose number is missing
\* (None and 0 are both falsy at line 239).
Pages == {<<1>>, <<2>>, <<0, 1>>, <<1, 2>>, <<2, 2>>}

\* ------------------------------------------------------------------- state

VARIABLES
    pc,                              \* where main is
    only_contributors,               \* --only-contributors
    llm_ready,                       \* --llm-ready / --no-llm-ready
    contributor_logins,              \* the logins of the contributor fetch
    walk,                            \* index of the login being searched (0: all)
    current_cursor,                  \* cursor the next search request carries
    items,                           \* summaries of the page still to process
    has_next_page,                   \* pageInfo.hasNextPage of the last page
    next_cursor,                     \* pageInfo.endCursor of the last page
    json_file,                       \* discussion_<n>.json of the run directory
    md_file,                         \* discussion_<n>.md of the run directory
    processed_discussion_numbers,    \* the run-local set of handled numbers
    discussions_for_concatenation,   \* (created_at, markdown) collected
    concatenated_md_file,            \* all_discussions_llm_ready.md
    search_log,                      \* the requests of the walk under way, answered
    detail_requests,                 \* detail requests sent, per number
    json_writes,                     \* writes that created the json file, per number
    md_writes,                       \* writes that created the md file, per number
    failures,                        \* failed detail requests and writes, by kind
    pages_served,                    \* pages with summaries served so far
    contributors_fetch,              \* how parser.get_contributors() ended
    created_at_str,                  \* createdAt of the details a text was made of
    search_answer,                   \* what the last search request was answered
    detail_answer,                   \* what the last detail request was answered
    since,                           \* --since (empty: not given)
    repository,                      \* the repository argument
    token,                           \* --token
    env_token,                       \* GITHUB_TOKEN of the environment
    now,                             \* datetime.now(timezone.utc)
    since_date_str,                  \* the parsed --since (empty: none)
    since_error,                     \* the ValueError parsing --since raised
    parser,                          \* the GithubParser of the run
    search_filter,                   \* the arguments of a get_discussions call
    search_query,                    \* the search_query_string it builds
    body_text,                       \* the argument of a format_body call
    body_cdata                       \* what format_body returns

vars == <<pc, only_contributors, llm_ready, contributor_logins, walk,
          current_cursor, items, has_next_page, next_cursor, json_file, md_file,
          processed_discussion_numbers, discussions_for_concatenation,
          concatenated_md_file, search_log, detail_requests, json_writes,
          md_writes, failures, pages_served, contributors_fetch, created_at_str,
          search_answer, detail_answer, since,
          repository, token, env_token, now, since_date_str, since_error,
          parser, search_filter, search_query, body_text, body_cdata>>

\* The arguments and environment of the run, and what setup makes of them.
setup_vars == <<since, repository, token, env_token, now, since_date_str,
                since_error, parser>>

\* The functions checked on their own: their arguments and results.
function_vars == <<search_filter, search_query, body_text, body_cdata>>

\* A file of the run directory: never created, left by an earlier run into
\* the same directory, written completely by this run, or left incomplete by
\* a write of this run that failed after the file was opened.
FileStates == {"absent", "prior", "written", "partial"}

Exists(f) == f # "absent"

\* The text generate_llm_ready_markdown gives for discussion n, and the
\* separator the concatenation writes between two texts.
MarkdownOf(n) == <<"md", n>>

Separator == <<"sep", 0>>

NoFile == [exists |-> FALSE, complete |-> FALSE, content |-> <<>>]

\* The count of the environment's failures, by kind.
NoFailures == [fetch |-> 0, json |-> 0, md |-> 0]

Total(f) == f.fetch + f.json + f.md

\* ------------------------------------------- process_and_save_discussion

\* Line 239: a summary without a number is dropped.
HasNumber(n) == n # 0

\* Variant: the run-local set is never consulted.
AlreadyProcessed_never(n, processed) == FALSE

\* Line 244: the number was handled earlier in this run.
AlreadyProcessed(n, processed) == n \in processed

\* Variant: skip only when both artifacts exist.
SkipExisting_both(json_exists, md_exists, generate_llm_md) ==
    json_exists /\ md_exists

\* Line 256: the files the run needs are already there.
SkipExisting(json_exists, md_exists, generate_llm_md) ==
    json_exists /\ (~generate_llm_md \/ md_exists)

\* Variant: details are fetched only for a missing detail artifact.
NeedsDetails_jsonOnly(json_exists, md_exists, generate_llm_md) ==
    ~json_exists

\* Line 269: the details are fetched when the json is missing, or when the
\* Markdown is wanted and missing.
NeedsDetails(json_exists, md_exists, generate_llm_md) ==
    ~json_exists \/ (generate_llm_md /\ ~md_exists)

\* Variant: the json is written whenever details were fetched.
SavesJson_always(json_exists, have_details) == have_details

\* Line 281: the json is written when it is missing and details were fetched.
SavesJson(json_exists, have_details) == ~json_exists /\ have_details

\* Lines 297-298: the Markdown is generated when wanted, missing, and details
\* were fetched.
GeneratesMd(generate_llm_md, md_exists, have_details) ==
    generate_llm_md /\ have_details /\ ~md_exists

\* Variant: nothing is marked after the serialized text.
MarksAfterMd_never(json_exists, generate_llm_md, already_marked) == FALSE

\* Line 331: a number whose json existed is marked once the Markdown part ran.
MarksAfterMd(json_exists, generate_llm_md, already_marked) ==
    json_exists /\ generate_llm_md /\ ~already_marked

\* Variant: a failed fetch does not return.
ReturnsAfterFetch_never(requested, fetch) == FALSE

\* Lines 273-278: a failed detail request ends the call.
ReturnsAfterFetch(requested, fetch) == requested /\ fetch = "fail"

\* Variant: a failed write does not return.
ReturnsAfterJson_never(saves_json, jw) == FALSE

\* Lines 287-294: a failed write of the json ends the call.
ReturnsAfterJson(saves_json, jw) == saves_json /\ jw # "ok"

\* Variant: the number is marked whether or not the write succeeded.
MarksAfterJson_always(saves_json, jw) == saves_json

\* Line 286: the number is marked once the json is written.
MarksAfterJson(saves_json, jw) == saves_json /\ jw = "ok"

\* Variant: every text written is collected.
Collects_always(md_written, created) == md_written

\* Lines 307-317: the text is collected when it was written and the details'
\* createdAt is there and parses.
Collects(md_written, created) == md_written /\ created # 0

\* What a detail request can come back with (lines 272-278), what the write
\* of a file can end as (lines 283-294, 302-322): completely written, failed
\* before the file was created, failed after it was opened.
FetchOutcomes == {"ok", "fail"}

WriteOutcomes == {"ok", "nofile", "partial"}

AfterWrite(before, how) ==
    IF how = "ok" THEN "written"
    ELSE IF how = "partial" THEN "partial"
    ELSE before

\* A write that got as far as creating the file.
Creates(how) == how \in {"ok", "partial"}

\* ------------------------------------------------------------ pagination

\* Variant: the end cursor is not looked at.
WalkContinues_hasNext(has_next, cursor) == has_next

\* Line 402 (and 448): the walk goes on only with hasNextPage and a cursor.
WalkContinues(has_next, cursor) == has_next /\ cursor # None

\* Variant: the cursor is not advanced.
CursorAfter_keep(current, returned) == current

\* Line 405 (and 451): the cursor the next request of the walk carries.
CursorAfter(current, returned) == returned

\* Lines 368 and 413-418: the first walk of the run. With --only-contributors
\* there is one walk per login (1, 2, ...); without, the single walk 0.
FirstWalk(only) == IF only THEN 1 ELSE 0

\* Variant: a walk is never followed by another.
HasNextWalk_never(only, w, logins) == FALSE

\* Line 368: whether another login follows walk w.
HasNextWalk(only, w, logins) == only /\ w < Len(logins)

\* ----------------------------------------------------------- concatenation

\* Line 463: list.sort(key=item[0]) is a stable ascending sort. Insert puts
\* e behind every element whose key is not larger, as a stable sort does.
RECURSIVE InsertByCreated(_, _)
InsertByCreated(e, sorted) ==
    IF sorted = <<>> THEN <<e>>
    ELSE IF e[1] < Head(sorted)[1] THEN <<e>> \o sorted
    ELSE <<Head(sorted)>> \o InsertByCreated(e, Tail(sorted))

RECURSIVE SortByCreated(_)
SortByCreated(list) ==
    IF list = <<>> THEN <<>>
    ELSE InsertByCreated(list[Len(list)], SortByCreated(SubSeq(list, 1, Len(list) - 1)))

\* Variant: a separator follows every text.
WritesSeparator_always(i, n) == TRUE

\* Line 471: the separator follows every text but the last (i counts from 0).
WritesSeparator(i, n) == i < n - 1

\* Lines 468-472: what the loop writes from entry i+1 on.
RECURSIVE WriteFrom(_, _)
WriteFrom(list, i) ==
    IF i >= Len(list) THEN <<>>
    ELSE <<list[i + 1][2]>>
         \o (IF WritesSeparator(i, Len(list)) THEN <<Separator>> ELSE <<>>)
         \o WriteFrom(list, i + 1)

\* ------------------------------------------------------------------- setup

\* A string is a sequence of one-character strings.
DigitChars == <<"0", "1", "2", "3", "4", "5", "6", "7", "8", "9">>

IsDigit(c) == \E i \in 1..10 : DigitChars[i] = c

DigitValue(c) == (CHOOSE i \in 1..10 : DigitChars[i] = c) - 1

\* int() of a string of digits.
RECURSIVE IntOf(_)
IntOf(s) ==
    IF s = <<>> THEN 0
    ELSE 10 * IntOf(SubSeq(s, 1, Len(s) - 1)) + DigitValue(s[Len(s)])

\* str.lower(), on the letters the inputs use.
LowerChar(c) ==
    CASE c = "D" -> "d"
      [] c = "H" -> "h"
      [] c = "W" -> "w"
      [] c = "M" -> "m"
      [] c = "Y" -> "y"
      [] OTHER -> c

Lower(s) == [i \in 1..Len(s) |-> LowerChar(s[i])]

\* The regex anchor $ after the first k characters: the end of the string,
\* or just before a newline that ends it.
AtEnd(s, k) == k = Len(s) \/ (k = Len(s) - 1 /\ s[Len(s)] = "\n")

\* Line 34: re.match(r"^\d{4}-\d{2}-\d{2}$", since_str).
IsAbsolutePattern(s) ==
    /\ Len(s) >= 10
    /\ \A i \in {1, 2, 3, 4, 6, 7, 9, 10} : IsDigit(s[i])
    /\ s[5] = "-"
    /\ s[8] = "-"
    /\ AtEnd(s, 10)

IsLeap(y) == (y % 4 = 0 /\ y % 100 # 0) \/ y % 400 = 0

DaysInYear(y) == IF IsLeap(y) THEN 366 ELSE 365

DaysInMonth(y, m) ==
    IF m = 2 THEN (IF IsLeap(y) THEN 29 ELSE 28)
    ELSE IF m \in {4, 6, 9, 11} THEN 30 ELSE 31

\* Line 37: datetime.strptime(since_str, '%Y-%m-%d') accepts the ten
\* characters of a date of the calendar and nothing after them.
StrptimeAccepts(s) ==
    /\ Len(s) = 10
    /\ LET y == IntOf(SubSeq(s, 1, 4))
           m == IntOf(SubSeq(s, 6, 7))
           d == IntOf(SubSeq(s, 9, 10))
       IN /\ y >= 1
          /\ m \in 1..12
          /\ d \in 1..DaysInMonth(y, m)

\* Line 43: the unit letters of the relative form.
UnitLetters == {"d", "h", "w", "m", "y"}

\* Line 43: re.match(r"^(\d+)([dhwmy])$", since_str.lower()): the number of
\* digits matched, or 0 when there is no match.
RelativeDigits(s) ==
    LET ks == {k \in 1..(Len(s) - 1) :
                 /\ \A i \in 1..k : IsDigit(s[i])
                 /\ s[k + 1] \in UnitLetters
                 /\ AtEnd(s, k + 1)}
    IN IF ks = {} THEN 0 ELSE CHOOSE k \in ks : TRUE

\* Lines 53-64: the timedelta of a unit, in hours.
UnitHours(unit) ==
    CASE unit = "d" -> 24
      [] unit = "h" -> 1
      [] unit = "w" -> 7 * 24
      [] unit = "m" -> 30 * 24
      [] unit = "y" -> 365 * 24

\* An instant is [day, hour]: whole days since 2020-01-01 and the hour of
\* the day. Lines 50 and 67: now - delta, in hours since 2020-01-01T00.
HoursOf(instant) == instant.day * 24 + instant.hour

\* The calendar date k days after the first day of month m of year y.
RECURSIVE CivilFrom(_, _, _)
CivilFrom(y, m, k) ==
    IF m = 1 /\ k >= DaysInYear(y) THEN CivilFrom(y + 1, 1, k - DaysInYear(y))
    ELSE IF k >= DaysInMonth(y, m) THEN CivilFrom(y, m + 1, k - DaysInMonth(y, m))
    ELSE [y |-> y, m |-> m, d |-> k + 1]

\* The calendar date of the instant that many hours after 2020-01-01T00.
DateOfHours(h) == CivilFrom(2020, 1, h \div 24)

\* A number as width digits, zero-padded.
RECURSIVE Padded(_, _)
Padded(n, width) ==
    IF width = 0 THEN <<>>
    ELSE Padded(n \div 10, width - 1) \o <<DigitChars[(n % 10) + 1]>>

\* Line 68: strftime('%Y-%m-%d').
Strftime(date) ==
    Padded(date.y, 4) \o <<"-">> \o Padded(date.m, 2) \o <<"-">> \o Padded(date.d, 2)

\* Lines 19-71: parse_since_to_date. Every failure is a ValueError; error
\* names the raise statement (line 40, 45 or 71).
ParseSinceToDate(since_str, now_utc) ==
    IF IsAbsolutePattern(since_str)
    THEN IF StrptimeAccepts(since_str)
         THEN [ok |-> TRUE, date |-> since_str, error |-> "none"]
         ELSE [ok |-> FALSE, date |-> <<>>, error |-> "InvalidDate"]
    ELSE LET lowered == Lower(since_str)
             k == RelativeDigits(lowered)
         IN IF k = 0
            THEN [ok |-> FALSE, date |-> <<>>, error |-> "InvalidFormat"]
            ELSE LET value == IntOf(SubSeq(lowered, 1, k))
                     unit == lowered[k + 1]
                     delta == value * UnitHours(unit)
                 IN IF delta # 0
                    THEN [ok |-> TRUE,
                          date |-> Strftime(DateOfHours(HoursOf(now_utc) - delta)),
                          error |-> "none"]
                    ELSE [ok |-> FALSE, date |-> <<>>, error |-> "UnknownUnit"]

\* A repository reference is a sequence of the pieces the regex of line 62
\* tells apart; a name is a run of [\w.-].
RepoNames == {"octo", "hello"}

Schemes == {"http://", "https://"}

\* backend.py lines 47-69: _parse_repo_url. After an optional scheme and an
\* optional www. come github.com/, the owner, a slash and the repository;
\* then nothing, or .git, or a path, or .git and a path.
ParseRepoUrl(url) ==
    LET a == IF url # <<>> /\ Head(url) \in Schemes THEN Tail(url) ELSE url
        b == IF a # <<>> /\ Head(a) = "www." THEN Tail(a) ELSE a
        rest == IF Len(b) >= 4 THEN SubSeq(b, 5, Len(b)) ELSE <<>>
        path == IF rest # <<>> /\ Head(rest) = ".git" THEN Tail(rest) ELSE rest
    IN IF /\ Len(b) >= 4
          /\ b[1] = "github.com/"
          /\ b[2] \in RepoNames
          /\ b[3] = "/"
          /\ b[4] \in RepoNames
          /\ (path = <<>> \/ Head(path) = "/")
       THEN [ok |-> TRUE, owner |-> b[2], repo |-> b[4]]
       ELSE [ok |-> FALSE, owner |-> None, repo |-> None]

\* Python's truth value of an optional string.
Truthy(s) == s # None /\ s # ""

\* Variant: the credential is not looked at.
HasToken_any(tok, env) == TRUE

\* backend.py lines 31-37: the token argument, else GITHUB_TOKEN.
HasToken(tok, env) == Truthy(tok) \/ Truthy(env)

\* backend.py lines 17-45: GithubParser(repository_url, token).
NewParser(url, tok, env) ==
    LET parsed == ParseRepoUrl(url) IN
    IF parsed.ok /\ HasToken(tok, env)
    THEN [ok |-> TRUE, owner |-> parsed.owner, repo |-> parsed.repo]
    ELSE [ok |-> FALSE, owner |-> None, repo |-> None]

NoParser == [ok |-> FALSE, owner |-> None, repo |-> None]

\* ------------------------------------------------------------ search query

\* An optional string that is None or empty is the empty sequence.
Present(s) == s # <<>>

\* Variant: any whitespace character counts.
HasSpace_whitespace(s) == \E i \in 1..Len(s) : s[i] \in {" ", "\t"}

\* backend.py lines 168, 182, 183: ' ' in s.
HasSpace(s) == \E i \in 1..Len(s) : s[i] = " "

\* backend.py lines 168, 182, 183: the value, in double quotes when it
\* contains a space.
Quoted(s) == IF HasSpace(s) THEN <<"\"">> \o s \o <<"\"">> ELSE s

\* str.join.
RECURSIVE JoinWith(_, _)
JoinWith(parts, sep) ==
    IF parts = <<>> THEN <<>>
    ELSE IF Len(parts) = 1 THEN parts[1]
    ELSE parts[1] \o sep \o JoinWith(Tail(parts), sep)

\* backend.py lines 162-165.
InQualifiers(f) ==
    (IF f.in_title THEN <<(<<"title">>)>> ELSE <<>>)
    \o (IF f.in_body THEN <<(<<"body">>)>> ELSE <<>>)
    \o (IF f.in_comments THEN <<(<<"comments">>)>> ELSE <<>>)

\* Variant: the in: list is left out.
TextPart_bare(f) == Quoted(f.query_text)

\* backend.py lines 168-174: the free text, with the in: list when a
\* location flag is set.
TextPart(f) ==
    IF InQualifiers(f) # <<>>
    THEN Quoted(f.query_text) \o <<" ", "in:">> \o JoinWith(InQualifiers(f), <<",">>)
    ELSE Quoted(f.query_text)

\* backend.py lines 186-188: an optional boolean is "None", "True" or "False".
StatePart(flag, yes, no) ==
    IF flag = "None" THEN <<>>
    ELSE IF flag = "True" THEN <<(<<"is:", yes>>)>> ELSE <<(<<"is:", no>>)>>

\* Variant: the upper bound alone gives no qualifier.
CreatedPart_noUpper(after, before) ==
    IF Present(after) /\ Present(before)
    THEN <<(<<"created:">> \o after \o <<"..">> \o before)>>
    ELSE IF Present(after) THEN <<(<<"created:", ">=">> \o after)>>
    ELSE <<>>

\* backend.py lines 191-193.
CreatedPart(after, before) ==
    IF Present(after) /\ Present(before)
    THEN <<(<<"created:">> \o after \o <<"..">> \o before)>>
    ELSE IF Present(after) THEN <<(<<"created:", ">=">> \o after)>>
    ELSE IF Present(before) THEN <<(<<"created:", "<=">> \o before)>>
    ELSE <<>>

\* backend.py lines 200 and 204: a bound given alone must have the form of a
\* date.
RejectsUpdated(after, before) ==
    /\ ~(Present(after) /\ Present(before))
    /\ \/ Present(after) /\ ~IsAbsolutePattern(after)
       \/ ~Present(after) /\ Present(before) /\ ~IsAbsolutePattern(before)

\* backend.py lines 196-206.
UpdatedPart(after, before) ==
    IF Present(after) /\ Present(before)
    THEN <<(<<"updated:">> \o after \o <<"..">> \o before)>>
    ELSE IF Present(after) THEN <<(<<"updated:", ">=">> \o after)>>
    ELSE IF Present(before) THEN <<(<<"updated:", "<=">> \o before)>>
    ELSE <<>>

\* backend.py lines 159-206: query_parts.
QueryParts(p, f) ==
    <<(<<"repo:", p.owner, "/", p.repo>>), (<<"is:discussion">>)>>
    \o (IF Present(f.query_text) THEN <<TextPart(f)>> ELSE <<>>)
    \o (IF Present(f.author) THEN <<(<<"author:">> \o f.author)>> ELSE <<>>)
    \o (IF Present(f.involves) THEN <<(<<"involves:">> \o f.involves)>> ELSE <<>>)
    \o (IF Present(f.category) THEN <<(<<"category:">> \o Quoted(f.category))>> ELSE <<>>)
    \o (IF Present(f.label) THEN <<(<<"label:">> \o Quoted(f.label))>> ELSE <<>>)
    \o StatePart(f.is_open, "open", "closed")
    \o StatePart(f.is_answered, "answered", "unanswered")
    \o StatePart(f.is_locked, "locked", "unlocked")
    \o CreatedPart(f.created_after, f.created_before)
    \o UpdatedPart(f.updated_after, f.updated_before)

\* backend.py lines 158-218: search_query_string, or the ValueError of line
\* 201 or 205.
SearchQueryString(p, f) ==
    IF RejectsUpdated(f.updated_after, f.updated_before)
    THEN [ok |-> FALSE, query |-> <<>>]
    ELSE [ok |-> TRUE, query |-> JoinWith(QueryParts(p, f), <<" ">>)]

\* backend.py lines 158-290: get_discussions up to its request. The
\* ValueError of line 201 or 205 leaves the function before requests.post
\* (line 289) is reached.
GetDiscussionsRequest(p, f) ==
    LET built == SearchQueryString(p, f)
    IN [ok |-> built.ok, query |-> built.query, posted |-> built.ok]

\* No call of get_discussions was made.
NoQuery == [ok |-> FALSE, query |-> <<>>, posted |-> FALSE]

\* get_discussions without arguments.
EmptyFilter ==
    [query_text |-> <<>>, in_title |-> FALSE, in_body |-> FALSE,
     in_comments |-> FALSE, author |-> <<>>, involves |-> <<>>,
     is_open |-> "None", is_answered |-> "None", is_locked |-> "None",
     category |-> <<>>, label |-> <<>>, created_after |-> <<>>,
     created_before |-> <<>>, updated_after |-> <<>>, updated_before |-> <<>>]

\* ------------------------------------------------- answers to a request

\* The answer to a GraphQL request, as far as the backend looks at it:
\* status is the HTTP status (0: requests.post raised, there is no response),
\* errors says the body has the key "errors", data that it has the data the
\* function returns. A body that is not 200 is not looked at.
AnswerStatuses == {0, 200, 401, 500}

Answers ==
    [status : {200}, errors : BOOLEAN, data : BOOLEAN]
    \cup [status : AnswerStatuses \ {200}, errors : {FALSE}, data : {FALSE}]

\* No request was answered.
NoAnswer == [status |-> -1, errors |-> FALSE, data |-> FALSE]

NoAnswers ==
    /\ search_answer = NoAnswer
    /\ detail_answer = NoAnswer

answer_vars == <<search_answer, detail_answer>>

\* Variant: the error list of a 200 response is not looked at.
HasErrorList_never(a) == FALSE

\* backend.py lines 294 and 409: "errors" in result_json.
HasErrorList(a) == a.errors

\* backend.py lines 288-323: what get_discussions does with the answer.
\* requests.post raising is re-raised as RequestException (line 321), a
\* status that is not 2xx becomes a ValueError (lines 304-319), and so do
\* an error list (line 295) and a body without data (line 299); otherwise
\* the body is returned.
SearchResult(a) ==
    IF a.status = 0 THEN "RequestException"
    ELSE IF a.status # 200 THEN "ValueError"
    ELSE IF HasErrorList(a) THEN "ValueError"
    ELSE IF ~a.data THEN "ValueError"
    ELSE "data"

\* backend.py lines 405-429: what get_discussion_details does with the
\* answer; as above, with the discussion object as the data (line 412).
\* discussion_parser.py lines 272-278 catch both exceptions alike.
DetailsResult(a) ==
    IF a.status = 0 THEN "fail"
    ELSE IF a.status # 200 THEN "fail"
    ELSE IF HasErrorList(a) THEN "fail"
    ELSE IF ~a.data THEN "fail"
    ELSE "ok"

\* The functions checked on their own are not called.
NoBody ==
    /\ body_text = <<>>
    /\ body_cdata = <<>>

NoCalls ==
    /\ search_filter = EmptyFilter
    /\ search_query = NoQuery
    /\ NoBody

\* ------------------------------------------------------------- format_body

\* \s of the regex, and the characters str.strip() removes.
IsSpace(c) == c \in {" ", "\n"}

\* Line 94: text.strip().
RECURSIVE StripLeft(_)
StripLeft(s) ==
    IF s # <<>> /\ IsSpace(Head(s)) THEN StripLeft(Tail(s)) ELSE s

RECURSIVE StripRight(_)
StripRight(s) ==
    IF s # <<>> /\ IsSpace(s[Len(s)])
    THEN StripRight(SubSeq(s, 1, Len(s) - 1))
    ELSE s

Strip(s) == StripRight(StripLeft(s))

\* Line 94: .replace("]]>", "]]&gt;"), from the left, without overlaps.
RECURSIVE ReplaceCDataEnd(_)
ReplaceCDataEnd(s) ==
    IF s = <<>> THEN <<>>
    ELSE IF Len(s) >= 3 /\ SubSeq(s, 1, 3) = <<"]", "]", ">">>
         THEN <<"]", "]", "&", "g", "t", ";">> \o ReplaceCDataEnd(SubSeq(s, 4, Len(s)))
         ELSE <<Head(s)>> \o ReplaceCDataEnd(Tail(s))

\* Line 96: re.sub(r'\s+', ' ', safe_text).
RECURSIVE CollapseSpaces(_)
CollapseSpaces(s) ==
    IF s = <<>> THEN <<>>
    ELSE IF IsSpace(Head(s))
         THEN <<" ">> \o CollapseSpaces(StripLeft(s))
         ELSE <<Head(s)>> \o CollapseSpaces(Tail(s))

\* Lines 90-97: format_body; a body of None is the empty sequence, and gives
\* what the empty string gives.
FormatBody(body) ==
    <<"<![CDATA[">> \o CollapseSpaces(ReplaceCDataEnd(Strip(body))) \o <<"]", "]", ">">>

\* The setup of the runs whose walks are followed: no --since, a repository
\* reference of the usual form and a token.
AfterSetup ==
    /\ since = <<>>
    /\ repository = <<"https://", "github.com/", "octo", "/", "hello">>
    /\ token = "ghp"
    /\ env_token = None
    /\ now = [day |-> 1521, hour |-> 0]
    /\ since_date_str = <<>>
    /\ since_error = "none"
    /\ parser = NewParser(repository, token, env_token)

\* ----------------------------------------------------------------- actions

Init ==
    /\ pc = "contributors"
    /\ only_contributors \in BOOLEAN
    /\ llm_ready \in BOOLEAN
    /\ contributor_logins = <<>>
    /\ walk = 0
    /\ current_cursor = None
    /\ items = <<>>
    /\ has_next_page = FALSE
    /\ next_cursor = None
    /\ json_file \in [Numbers -> {"absent", "prior"}]
    /\ md_file \in [Numbers -> {"absent", "prior"}]
    /\ \A n \in Numbers \ PriorNumbers : json_file[n] = "absent"
    /\ \A n \in Numbers : md_file[n] = "prior" => json_file[n] = "prior"
    /\ failures = NoFailures
    /\ pages_served = 0
    /\ processed_discussion_numbers = {}
    /\ discussions_for_concatenation = <<>>
    /\ concatenated_md_file = NoFile
    /\ search_log = <<>>
    /\ detail_requests = [n \in Numbers |-> 0]
    /\ json_writes = [n \in Numbers |-> 0]
    /\ md_writes = [n \in Numbers |-> 0]
    /\ contributors_fetch = "none"
    /\ created_at_str = [n \in Numbers |-> -1]
    /\ NoAnswers
    /\ AfterSetup
    /\ NoCalls

\* Variant: a failed contributor fetch always ends the run.
ExitsOnContributorFailure_always(only) == TRUE

\* Lines 214-216 and 223-225: a failed contributor fetch ends the run under
\* --only-contributors.
ExitsOnContributorFailure(only) == only

\* Lines 357-363: under --only-contributors an empty list ends the run.
ExitsWithoutLogins(only, logins) == only /\ logins = <<>>

\* Lines 204-229 and 357-365: the contributor fetch, and the choice of the
\* first walk. A failed fetch ends the run under --only-contributors, and so
\* does an empty list; otherwise the run goes on without contributors.
FetchContributors ==
    /\ pc = "contributors"
    /\ \E fetched \in FetchOutcomes :
       \E logins \in IF fetched = "ok" THEN ContributorLists ELSE {<<>>} :
        /\ contributors_fetch' = fetched
        /\ contributor_logins' = logins
        /\ pc' = IF fetched = "fail" /\ ExitsOnContributorFailure(only_contributors)
                 THEN "exit"
                 ELSE IF ExitsWithoutLogins(only_contributors, logins)
                      THEN "exit"
                      ELSE "search"
        /\ walk' = FirstWalk(only_contributors)
    /\ UNCHANGED <<only_contributors, llm_ready, current_cursor, items,
                   has_next_page, next_cursor, json_file, md_file,
                   processed_discussion_numbers, discussions_for_concatenation,
                   concatenated_md_file, search_log, detail_requests,
                   json_writes, md_writes, failures, pages_served,
                   created_at_str>>
    /\ UNCHANGED <<setup_vars, function_vars, answer_vars>>

\* What the platform can answer to a search request: a failure (transport,
\* HTTP status or an error payload: get_discussions raises), a payload
\* without search results, or a page. The platform has finitely many pages
\* to serve: once MaxPages pages with summaries were served, pages are empty.
Responses(exhausted) ==
    {[kind |-> "error", items |-> <<>>, has_next |-> FALSE, end |-> None],
     [kind |-> "malformed", items |-> <<>>, has_next |-> FALSE, end |-> None]}
    \cup [kind : {"page"}, items : IF exhausted THEN {<<>>} ELSE {<<>>} \cup Pages,
          has_next : BOOLEAN, end : {None} \cup Cursors]

\* Variant: an empty page does not end the walk.
EndsOnEmptyPage_never(page_items) == FALSE

\* Lines 394-396 (and 440-442): a page without items ends the walk.
EndsOnEmptyPage(page_items) == page_items = <<>>

\* Lines 373-398 (and 419-444): one search request and the look at its
\* answer. An exception (caught at lines 408-411 and 454-457), a payload
\* without search results and an empty page end the walk; a page with items
\* is handed to the item loop. hasNextPage and endCursor are read (lines
\* 389-390) before the page is found empty.
SearchFrom(responses) ==
    /\ pc = "search"
    /\ \E r \in responses :
        /\ pages_served' = IF r.items # <<>> THEN pages_served + 1 ELSE pages_served
        /\ search_log' = Append(search_log,
               [after |-> current_cursor, kind |-> r.kind,
                empty |-> r.items = <<>>, has_next |-> r.has_next, end |-> r.end])
        /\ IF r.kind = "page"
           THEN /\ has_next_page' = r.has_next
                /\ next_cursor' = r.end
           ELSE UNCHANGED <<has_next_page, next_cursor>>
        /\ IF r.kind = "page" /\ ~EndsOnEmptyPage(r.items)
           THEN /\ items' = r.items
                /\ pc' = "items"
           ELSE /\ items' = items
                /\ pc' = "walk_end"
    /\ UNCHANGED <<only_contributors, llm_ready, contributor_logins, walk,
                   current_cursor, json_file, md_file,
                   processed_discussion_numbers,
                   discussions_for_concatenation, concatenated_md_file,
                   detail_requests, json_writes, md_writes, failures,
                   contributors_fetch, created_at_str>>
    /\ UNCHANGED <<setup_vars, function_vars>>

\* A search request, answered in any of the ways get_discussions can end.
Search ==
    /\ SearchFrom(Responses(pages_served >= MaxPages))
    /\ UNCHANGED answer_vars

Bump(f, n, yes) == IF yes THEN [f EXCEPT ![n] = @ + 1] ELSE f

\* Lines 237-332: process_and_save_discussion for the next summary of the
\* page, with what the detail request and the two writes come back with.
ProcessItemFrom(fetches) ==
    /\ pc = "items"
    /\ items # <<>>
    /\ LET n == Head(items)
           numbered == HasNumber(n)
           was_processed == numbered
                            /\ AlreadyProcessed(n, processed_discussion_numbers)
           live == numbered /\ ~was_processed
           json_before == IF numbered THEN json_file[n] ELSE "absent"
           md_before == IF numbered THEN md_file[n] ELSE "absent"
           json_exists == Exists(json_before)
           md_exists == Exists(md_before)
           skip == live /\ SkipExisting(json_exists, md_exists, llm_ready)
           requested == live /\ ~skip
                        /\ NeedsDetails(json_exists, md_exists, llm_ready)
       IN
       \E fetch \in IF requested THEN fetches ELSE {"none"} :
       LET fetch_failed == ReturnsAfterFetch(requested, fetch)
           have_details == requested /\ fetch = "ok"
           after_fetch == live /\ ~skip /\ ~fetch_failed
           saves_json == after_fetch /\ SavesJson(json_exists, have_details)
       IN
       \E jw \in IF saves_json THEN WriteOutcomes ELSE {"none"} :
       LET json_ok == MarksAfterJson(saves_json, jw)
           json_failed == ReturnsAfterJson(saves_json, jw)
           after_json == after_fetch /\ ~json_failed
           generates_md == after_json
                           /\ GeneratesMd(llm_ready, md_exists, have_details)
       IN
       \E mw \in IF generates_md THEN WriteOutcomes ELSE {"none"} :
       LET md_ok == generates_md /\ mw = "ok" IN
       \E created \in IF md_ok THEN CreatedAts(n) ELSE {0} :
       LET marks_late == after_json
                         /\ MarksAfterMd(json_exists, llm_ready,
                               json_ok \/ n \in processed_discussion_numbers)
           marked == skip \/ json_ok \/ marks_late
           failed == [fetch |-> IF requested /\ fetch = "fail" THEN 1 ELSE 0,
                      json |-> IF saves_json /\ jw # "ok" THEN 1 ELSE 0,
                      md |-> IF generates_md /\ mw # "ok" THEN 1 ELSE 0]
       IN
        /\ Total(failures) + Total(failed) <= MaxFailures
        /\ failures' = [k \in DOMAIN failures |-> failures[k] + failed[k]]
        /\ detail_requests' = Bump(detail_requests, n, requested)
        /\ json_file' = IF saves_json
                        THEN [json_file EXCEPT ![n] = AfterWrite(@, jw)]
                        ELSE json_file
        /\ json_writes' = Bump(json_writes, n, saves_json /\ Creates(jw))
        /\ md_file' = IF generates_md
                      THEN [md_file EXCEPT ![n] = AfterWrite(@, mw)]
                      ELSE md_file
        /\ md_writes' = Bump(md_writes, n, generates_md /\ Creates(mw))
        /\ discussions_for_concatenation' =
               IF Collects(md_ok, created)
               THEN Append(discussions_for_concatenation, <<created, MarkdownOf(n)>>)
               ELSE discussions_for_concatenation
        /\ processed_discussion_numbers' =
               IF marked THEN processed_discussion_numbers \cup {n}
               ELSE processed_discussion_numbers
        /\ created_at_str' = IF md_ok
                             THEN [created_at_str EXCEPT ![n] = created]
                             ELSE created_at_str
    /\ items' = Tail(items)
    /\ UNCHANGED <<pc, only_contributors, llm_ready, contributor_logins, walk,
                   current_cursor, has_next_page, next_cursor,
                   concatenated_md_file, search_log, pages_served,
                   contributors_fetch>>
    /\ UNCHANGED <<setup_vars, function_vars>>

\* The next summary of the page, with the detail request ending in any of
\* the ways get_discussion_details can end.
ProcessItem ==
    /\ ProcessItemFrom(FetchOutcomes)
    /\ UNCHANGED answer_vars

\* Lines 402-405 (and 448-451): after the last summary of the page the walk
\* either ends or goes on with the returned cursor.
EndPage ==
    /\ pc = "items"
    /\ items = <<>>
    /\ IF WalkContinues(has_next_page, next_cursor)
       THEN /\ current_cursor' = CursorAfter(current_cursor, next_cursor)
            /\ pc' = "search"
       ELSE /\ current_cursor' = current_cursor
            /\ pc' = "walk_end"
    /\ UNCHANGED <<only_contributors, llm_ready, contributor_logins, walk, items,
                   has_next_page, next_cursor, json_file, md_file,
                   processed_discussion_numbers, discussions_for_concatenation,
                   concatenated_md_file, search_log, detail_requests,
                   json_writes, md_writes, failures, pages_served,
                   contributors_fetch, created_at_str>>
    /\ UNCHANGED <<setup_vars, function_vars, answer_vars>>

\* Lines 368-372 and 459: a walk has ended (a break, or an exception caught
\* at lines 408-411 or 454-457). The next login's walk starts with no cursor
\* (line 372); after the last walk the concatenation follows. The locals of
\* the ended walk are dead: they are reset here, and the search log starts
\* anew.

NextWalk ==
    /\ pc = "walk_end"
    /\ IF HasNextWalk(only_contributors, walk, contributor_logins)
       THEN /\ walk' = walk + 1
            /\ pc' = "search"
       ELSE /\ walk' = walk
            /\ pc' = "concatenate"
    /\ current_cursor' = None
    /\ has_next_page' = FALSE
    /\ next_cursor' = None
    /\ search_log' = <<>>
    /\ UNCHANGED <<only_contributors, llm_ready, contributor_logins, items,
                   json_file, md_file, processed_discussion_numbers,
                   discussions_for_concatenation, concatenated_md_file,
                   detail_requests, json_writes, md_writes, failures,
                   pages_served,
                   contributors_fetch, created_at_str>>
    /\ UNCHANGED <<setup_vars, function_vars, answer_vars>>

\* Lines 459-479: the collected texts are sorted in place and written, with
\* separators, to the one file. A write that fails leaves no file, or the
\* part already written.

Concatenate ==
    /\ pc = "concatenate"
    /\ pc' = "done"
    /\ IF llm_ready /\ discussions_for_concatenation # <<>>
       THEN LET sorted == SortByCreated(discussions_for_concatenation)
                text == WriteFrom(sorted, 0)
            IN /\ discussions_for_concatenation' = sorted
               /\ \E how \in WriteOutcomes, k \in 0..(Len(text) - 1) :
                    concatenated_md_file' =
                        IF how = "ok"
                        THEN [exists |-> TRUE, complete |-> TRUE, content |-> text]
                        ELSE IF how = "partial"
                        THEN [exists |-> TRUE, complete |-> FALSE,
                              content |-> SubSeq(text, 1, k)]
                        ELSE NoFile
       ELSE UNCHANGED <<discussions_for_concatenation, concatenated_md_file>>
    /\ UNCHANGED <<only_contributors, llm_ready, contributor_logins, walk,
                   current_cursor, items, has_next_page, next_cursor, json_file,
                   md_file, processed_discussion_numbers, search_log,
                   detail_requests, json_writes, md_writes, failures, pages_served,
                   contributors_fetch, created_at_str>>
    /\ UNCHANGED <<setup_vars, function_vars, answer_vars>>

Next ==
    \/ FetchContributors
    \/ Search
    \/ ProcessItem
    \/ EndPage
    \/ NextWalk
    \/ Concatenate

Spec == Init /\ [][Next]_vars

\* -------------------------------------------- the concatenation on its own

\* The collected lists the concatenation step can be given: every sequence
\* of up to MaxTexts (created_at, markdown) pairs, in any order.
CollectedLists ==
    UNION {[1..k -> {<<t, MarkdownOf(n)>> : t \in TextTimestamps, n \in Numbers}] :
             k \in 0..MaxTexts}

\* A run at the concatenation step (line 459) with any collected list.
InitAgg ==
    /\ pc = "concatenate"
    /\ only_contributors = FALSE
    /\ llm_ready \in BOOLEAN
    /\ contributor_logins = <<>>
    /\ walk = 0
    /\ current_cursor = None
    /\ items = <<>>
    /\ has_next_page = FALSE
    /\ next_cursor = None
    /\ json_file = [n \in Numbers |-> "written"]
    /\ md_file = [n \in Numbers |-> "written"]
    /\ failures = NoFailures
    /\ pages_served = 0
    /\ processed_discussion_numbers = Numbers
    /\ discussions_for_concatenation \in CollectedLists
    /\ concatenated_md_file = NoFile
    /\ search_log = <<>>
    /\ detail_requests = [n \in Numbers |-> 1]
    /\ json_writes = [n \in Numbers |-> 1]
    /\ md_writes = [n \in Numbers |-> 1]
    /\ contributors_fetch = "ok"
    /\ created_at_str = [n \in Numbers |-> -1]
    /\ NoAnswers
    /\ AfterSetup
    /\ NoCalls

SpecAgg == InitAgg /\ [][Concatenate]_vars

\* ------------------------------------------------------- the setup of a run

\* The --since arguments tried: relative expressions in both letter cases,
\* date-shaped strings of real and impossible dates, and other strings.
RelativeInputs ==
    {<<DigitChars[n + 1], u>> :
        n \in 0..MaxSince, u \in UnitLetters \cup {"D", "H", "W", "M", "Y"}}

AbsoluteInputs ==
    {Strftime([y |-> y, m |-> m, d |-> d]) :
        y \in {2023, 2024}, m \in {0, 2, 12, 13}, d \in {0, 29, 30, 31, 32}}

OtherInputs ==
    {<<>>,
     <<"d">>, <<"1">>, <<"1", "x">>, <<"1", "d", "d">>, <<"-", "1", "d">>,
     <<"1", " ", "d">>, <<"1", "d", "\n">>, <<"0", "1", "d">>, <<"2", "4", "h">>,
     <<"2", "0", "2", "4", "0", "2", "2", "9">>,
     <<"2", "0", "2", "4", "-", "2", "-", "2", "9">>,
     <<"2", "0", "2", "4", "-", "0", "2", "-", "2", "9", "\n">>,
     <<"2", "0", "2", "4", "-", "0", "2", "-", "2", "9", "x">>}

SinceInputs == RelativeInputs \cup AbsoluteInputs \cup OtherInputs

\* 2024-03-01 at 00 and at 23, and 2024-12-31 at 12.
Nows ==
    {[day |-> 1521, hour |-> 0], [day |-> 1521, hour |-> 23],
     [day |-> 1826, hour |-> 12]}

Repositories ==
    {<<"https://", "github.com/", "octo", "/", "hello">>,
     <<"github.com/", "octo", "/", "hello", ".git">>,
     <<"http://", "www.", "github.com/", "octo", "/", "hello", "/", "discussions">>,
     <<"https://", "gitlab.com/", "octo", "/", "hello">>,
     <<"https://", "github.com/", "octo">>,
     <<"octo", "/", "hello">>,
     <<>>}

TokenValues == {None, "", "ghp"}

\* Lines 168-187: main is entered; nothing was parsed or requested yet.
InitSetup ==
    /\ pc = "since"
    /\ only_contributors \in BOOLEAN
    /\ llm_ready = TRUE
    /\ contributor_logins = <<>>
    /\ walk = 0
    /\ current_cursor = None
    /\ items = <<>>
    /\ has_next_page = FALSE
    /\ next_cursor = None
    /\ json_file = [n \in Numbers |-> "absent"]
    /\ md_file = [n \in Numbers |-> "absent"]
    /\ failures = NoFailures
    /\ pages_served = 0
    /\ processed_discussion_numbers = {}
    /\ discussions_for_concatenation = <<>>
    /\ concatenated_md_file = NoFile
    /\ search_log = <<>>
    /\ detail_requests = [n \in Numbers |-> 0]
    /\ json_writes = [n \in Numbers |-> 0]
    /\ md_writes = [n \in Numbers |-> 0]
    /\ contributors_fetch = "none"
    /\ created_at_str = [n \in Numbers |-> -1]
    /\ NoAnswers
    /\ since \in SinceInputs
    /\ repository \in Repositories
    /\ token \in TokenValues
    /\ env_token \in {None, "ghp"}
    /\ now \in Nows
    /\ since_date_str = <<>>
    /\ since_error = "none"
    /\ parser = NoParser
    /\ NoCalls

run_vars == <<only_contributors, llm_ready, contributor_logins, walk,
              current_cursor, items, has_next_page, next_cursor, json_file,
              md_file, processed_discussion_numbers,
              discussions_for_concatenation, concatenated_md_file, search_log,
              detail_requests, json_writes, md_writes, failures, pages_served,
              contributors_fetch, created_at_str, search_answer,
              detail_answer>>

\* Lines 188-195: --since, when given, is parsed; a ValueError ends the run.
ParseSince ==
    /\ pc = "since"
    /\ IF since = <<>>
       THEN /\ pc' = "parser"
            /\ UNCHANGED <<since_date_str, since_error>>
       ELSE LET parsed == ParseSinceToDate(since, now) IN
            /\ since_date_str' = parsed.date
            /\ since_error' = parsed.error
            /\ pc' = IF parsed.ok THEN "parser" ELSE "exit"
    /\ UNCHANGED <<since, repository, token, env_token, now, parser>>
    /\ UNCHANGED <<run_vars, function_vars>>

\* Lines 201-202 and 495-498: the parser is constructed; its ValueError ends
\* the run.
ConstructParser ==
    /\ pc = "parser"
    /\ parser' = NewParser(repository, token, env_token)
    /\ pc' = IF parser'.ok THEN "contributors" ELSE "exit"
    /\ UNCHANGED <<since, repository, token, env_token, now, since_date_str,
                   since_error>>
    /\ UNCHANGED <<run_vars, function_vars>>

\* A run from its start to the answer of the contributor request, the first
\* request a run sends.
NextSetup ==
    \/ ParseSince
    \/ ConstructParser
    \/ FetchContributors

SpecSetup == InitSetup /\ [][NextSetup]_vars

\* ------------------------------------------------- get_discussions, alone

\* No run is under way: the variables of the walks are at rest.
NoRun ==
    /\ only_contributors = FALSE
    /\ llm_ready = FALSE
    /\ contributor_logins = <<>>
    /\ walk = 0
    /\ current_cursor = None
    /\ items = <<>>
    /\ has_next_page = FALSE
    /\ next_cursor = None
    /\ json_file = [n \in Numbers |-> "absent"]
    /\ md_file = [n \in Numbers |-> "absent"]
    /\ failures = NoFailures
    /\ pages_served = 0
    /\ processed_discussion_numbers = {}
    /\ discussions_for_concatenation = <<>>
    /\ concatenated_md_file = NoFile
    /\ search_log = <<>>
    /\ detail_requests = [n \in Numbers |-> 0]
    /\ json_writes = [n \in Numbers |-> 0]
    /\ md_writes = [n \in Numbers |-> 0]
    /\ contributors_fetch = "none"
    /\ created_at_str = [n \in Numbers |-> -1]
    /\ NoAnswers

\* The values the arguments of get_discussions are drawn from.
Texts == {<<>>, <<"bug">>, <<"two", " ", "words">>, <<"tab", "\t", "bed">>}

Locations ==
    {<<FALSE, FALSE, FALSE>>, <<TRUE, FALSE, FALSE>>, <<FALSE, TRUE, TRUE>>,
     <<TRUE, TRUE, TRUE>>}

Logins == {<<>>, <<"alice">>}

Categories ==
    {<<>>, <<"Ideas">>, <<"Show", " ", "and", " ", "tell">>, <<"Q", "\t", "A">>}

Labels == {<<>>, <<"bug", " ", "fix">>, <<"good", "\t", "first">>}

LowerDates == {<<>>, Strftime([y |-> 2024, m |-> 1, d |-> 1])}

UpperDates == {<<>>, Strftime([y |-> 2024, m |-> 12, d |-> 31])}

NotADate == <<"s", "o", "o", "n">>

\* A date with the newline a line read from a file or a shell ends with.
DateLine == Strftime([y |-> 2024, m |-> 1, d |-> 1]) \o <<"\n">>

InitQuery ==
    /\ pc = "query"
    /\ NoRun
    /\ AfterSetup
    /\ \E t \in Texts, l \in Locations, a \in Logins, i \in Logins,
          o \in {"None", "True", "False"}, an \in {"None", "False"},
          lo \in {"None", "True"}, c \in Categories, la \in Labels,
          ca \in LowerDates \cup {NotADate}, cb \in UpperDates \cup {NotADate},
          ua \in LowerDates \cup {NotADate, DateLine}, ub \in UpperDates \cup {NotADate} :
        search_filter =
            [query_text |-> t, in_title |-> l[1], in_body |-> l[2],
             in_comments |-> l[3], author |-> a, involves |-> i, is_open |-> o,
             is_answered |-> an, is_locked |-> lo, category |-> c, label |-> la,
             created_after |-> ca, created_before |-> cb, updated_after |-> ua,
             updated_before |-> ub]
    /\ search_query = NoQuery
    /\ NoBody

\* backend.py lines 158-290: a call of get_discussions builds its query and
\* posts it.
BuildQuery ==
    /\ pc = "query"
    /\ pc' = "queried"
    /\ search_query' = GetDiscussionsRequest(parser, search_filter)
    /\ UNCHANGED <<run_vars, setup_vars, search_filter, body_text, body_cdata>>

SpecQuery == InitQuery /\ [][BuildQuery]_vars

\* ----------------------------------------------------- format_body, alone

\* The characters of the bodies tried, and the bodies: every string of up to
\* MaxBody of them.
BodyChars == {"a", " ", "\n", "]", ">"}

Bodies == UNION {[1..n -> BodyChars] : n \in 0..MaxBody}

InitBody ==
    /\ pc = "body"
    /\ NoRun
    /\ AfterSetup
    /\ search_filter = EmptyFilter
    /\ search_query = NoQuery
    /\ body_text \in Bodies
    /\ body_cdata = <<>>

\* Lines 90-97: a call of format_body.
FormatBodyCall ==
    /\ pc = "body"
    /\ pc' = "formatted"
    /\ body_cdata' = FormatBody(body_text)
    /\ UNCHANGED <<run_vars, setup_vars, search_filter, search_query, body_text>>

SpecBody == InitBody /\ [][FormatBodyCall]_vars

\* ------------------------------------------- the run, answer by answer

\* The pages with summaries the platform serves in the walk that is followed
\* answer by answer.
MaxAnswered == 1

\* The responses get_discussions hands to main for an answer: none but the
\* exception when it raises, and otherwise a payload without search results
\* or a page.
ResponsesTo(a, exhausted) ==
    {r \in Responses(exhausted) : (r.kind = "error") <=> (SearchResult(a) # "data")}

\* Lines 373-398 with backend.py lines 288-323: a search request, its
\* answer, and what the walk does with what get_discussions makes of it.
AnswerSearch ==
    /\ \E a \in Answers :
        /\ search_answer' = a
        /\ SearchFrom(ResponsesTo(a, pages_served >= MaxAnswered))
    /\ UNCHANGED detail_answer

\* Lines 237-332 with backend.py lines 405-429: the next summary of the
\* page; when a detail request is sent, its answer decides how the fetch
\* ends.
AnswerDetails ==
    /\ \E a \in Answers :
        /\ ProcessItemFrom({DetailsResult(a)})
        /\ detail_answer' = IF detail_requests' # detail_requests THEN a ELSE NoAnswer
    /\ UNCHANGED search_answer

\* Lines 416-457: the walk over all discussions of a run without
\* --only-contributors, from its first request to its end.
InitResponse ==
    /\ pc = "search"
    /\ only_contributors = FALSE
    /\ llm_ready \in BOOLEAN
    /\ contributor_logins = <<>>
    /\ contributors_fetch = "ok"
    /\ walk = FirstWalk(FALSE)
    /\ current_cursor = None
    /\ items = <<>>
    /\ has_next_page = FALSE
    /\ next_cursor = None
    /\ json_file \in [Numbers -> {"absent", "prior"}]
    /\ md_file \in [Numbers -> {"absent", "prior"}]
    /\ \A n \in Numbers \ PriorNumbers : json_file[n] = "absent"
    /\ \A n \in Numbers : md_file[n] = "prior" => json_file[n] = "prior"
    /\ failures = NoFailures
    /\ pages_served = 0
    /\ processed_discussion_numbers = {}
    /\ discussions_for_concatenation = <<>>
    /\ concatenated_md_file = NoFile
    /\ search_log = <<>>
    /\ detail_requests = [n \in Numbers |-> 0]
    /\ json_writes = [n \in Numbers |-> 0]
    /\ md_writes = [n \in Numbers |-> 0]
    /\ created_at_str = [m \in Numbers |-> -1]
    /\ NoAnswers
    /\ AfterSetup
    /\ NoCalls

NextResponse ==
    \/ AnswerSearch
    \/ AnswerDetails
    \/ EndPage

SpecResponse == InitResponse /\ [][NextResponse]_vars

\* -------------------------------------------------------------- properties

\* The step is process_and_save_discussion for a summary with number n.
Processing(n) ==
    /\ pc = "items"
    /\ items # <<>>
    /\ Head(items) = n
    /\ items' = Tail(items)

\* The answer to the last search request of the walk under way.
LastAnswer == search_log[Len(search_log)]

TextMissing(n) ==
    /\ n \notin processed_discussion_numbers
    /\ json_file[n] # "absent"
    /\ md_file[n] = "absent"
    /\ llm_ready

C3_WalkEnds ==
    /\ \A i \in 1..(Len(search_log) - 1) :
          search_log[i].has_next /\ search_log[i].end # None
    /\ pc \in {"search", "walk_end"} => items = <<>>

\* A walk ended by a page that reports a next page without an end cursor.
C3_Witness ==
    /\ pc = "walk_end"
    /\ search_log # <<>>
    /\ LastAnswer.kind = "page"
    /\ ~LastAnswer.empty
    /\ LastAnswer.has_next
    /\ LastAnswer.end = None

\* C4, as stated: the first request of a walk carries no cursor, every later
\* one carries the end cursor of the answer before it, and no two requests
\* of a walk carry the same cursor, whatever cursors the platform returns.
C4_NoPageTwice ==
    search_log # <<>> =>
        /\ search_log[1].after = None
        /\ \A i \in 2..Len(search_log) : search_log[i].after = search_log[i - 1].end
        /\ \A i, j \in 1..Len(search_log) :
              i < j => search_log[i].after # search_log[j].after

\* C4, amended: the first request of a walk carries no cursor and every later
\* one carries the end cursor of the answer before it; two requests of a walk
\* carry the same cursor only when the platform returned that end cursor in
\* two answers of the walk.
C4_CursorChain ==
    search_log # <<>> =>
        /\ search_log[1].after = None
        /\ \A i \in 2..Len(search_log) : search_log[i].after = search_log[i - 1].end
        /\ \A i, j \in 1..Len(search_log) :
              i < j /\ search_log[i].after = search_log[j].after =>
                i > 1 /\ search_log[i - 1].end = search_log[j - 1].end

\* A walk of three requests, the later two with different cursors.
C4_Witness ==
    /\ Len(search_log) = 3
    /\ search_log[2].after # search_log[3].after

\* C5: resume skip. For a summary whose number is not in ProcessedSet, whose
\* detail artifact exists, and for which serialization is not requested or
\* the serialized artifact exists too, no detail request is sent, no artifact
\* is written, nothing is handed to aggregation, and the number is added to
\* ProcessedSet.
C5_ResumeSkip ==
    [][\A n \in Numbers :
         /\ Processing(n)
         /\ n \notin processed_discussion_numbers
         /\ json_file[n] # "absent"
         /\ (~llm_ready \/ md_file[n] # "absent")
         =>
         /\ detail_requests' = detail_requests
         /\ json_file' = json_file
         /\ md_file' = md_file
         /\ json_writes' = json_writes
         /\ md_writes' = md_writes
         /\ discussions_for_concatenation' = discussions_for_concatenation
         /\ processed_discussion_numbers' = processed_discussion_numbers \cup {n}]_vars

\* A number marked without a detail request, its detail artifact being the
\* one an earlier run left.
C5_Witness ==
    \E n \in Numbers :
        /\ n \in processed_discussion_numbers
        /\ json_file[n] = "prior"
        /\ detail_requests[n] = 0

\* C6: when the detail fetch for a discussion fails, no artifact is written
\* for it, nothing is handed to aggregation, and its number is not added to
\* ProcessedSet.
C6_FetchFailure ==
    [][failures'.fetch > failures.fetch =>
         /\ json_file' = json_file
         /\ md_file' = md_file
         /\ json_writes' = json_writes
         /\ md_writes' = md_writes
         /\ discussions_for_concatenation' = discussions_for_concatenation
         /\ processed_discussion_numbers' = processed_discussion_numbers]_vars

\* A detail fetch has failed.
C6_Witness ==
    /\ failures.fetch = 1
    /\ \E n \in Numbers : detail_requests[n] >= 1 /\ n \notin processed_discussion_numbers

\* C7: when persisting the detail artifact fails, no serialized artifact is
\* written for that discussion, nothing is handed to aggregation, and its
\* number is not added to ProcessedSet.
C7_JsonWriteFailure ==
    [][failures'.json > failures.json =>
         /\ md_file' = md_file
         /\ md_writes' = md_writes
         /\ discussions_for_concatenation' = discussions_for_concatenation
         /\ processed_discussion_numbers' = processed_discussion_numbers]_vars

\* A write of a detail artifact has failed, with serialization requested.
C7_Witness ==
    /\ failures.json = 1
    /\ llm_ready
    /\ \E n \in Numbers : detail_requests[n] >= 1 /\ n \notin processed_discussion_numbers

\* C8: every discussion number in ProcessedSet has its detail artifact on
\* disk.
C8_ProcessedHaveDetail ==
    \A n \in processed_discussion_numbers : json_file[n] # "absent"

\* Numbers are in ProcessedSet, one whose detail artifact this run wrote.
C8_Witness ==
    \E n \in processed_discussion_numbers : json_file[n] = "written"

\* C9: the aggregate output is the collected texts in ascending order of
\* their creation timestamps, with the separator between each two
\* consecutive texts and none after the last: n >= 1 texts give n - 1
\* separators, in whatever order the texts were collected.
C9_Aggregate ==
    [][pc = "concatenate" /\ concatenated_md_file'.complete =>
         LET list == discussions_for_concatenation
             out == concatenated_md_file'.content
             n == Len(list)
         IN /\ n >= 1
            /\ Len(out) = 2 * n - 1
            /\ \A i \in 1..Len(out) : (out[i] = Separator) <=> (i % 2 = 0)
            /\ Cardinality({i \in 1..Len(out) : out[i] = Separator}) = n - 1
            /\ \E p \in Permutations(1..n) :
                 \A k \in 1..n :
                    /\ out[2 * k - 1] = list[p[k]][2]
                    /\ k < n => list[p[k]][1] <= list[p[k + 1]][1]]_vars

\* Three texts were written, with their two separators.
C9_Witness ==
    /\ pc = "done"
    /\ concatenated_md_file.complete
    /\ Len(concatenated_md_file.content) = 5
    /\ discussions_for_concatenation[1][1] < discussions_for_concatenation[3][1]

\* C10: a failed search request is not retried. It ends its walk with no
\* further request for that walk, what was processed stays processed, and
\* the run goes on with the next contributor's walk or, after the last walk,
\* with the concatenation.
C10_FailedSearch ==
    [][/\ ( /\ Len(search_log') = Len(search_log) + 1
            /\ search_log'[Len(search_log')].kind = "error" )
          =>
          /\ pc' = "walk_end"
          /\ processed_discussion_numbers' = processed_discussion_numbers
          /\ json_file' = json_file
          /\ md_file' = md_file
          /\ discussions_for_concatenation' = discussions_for_concatenation
       /\ ( search_log # <<>> /\ LastAnswer.kind = "error" )
          =>
          /\ search_log' = <<>>
          /\ processed_discussion_numbers' = processed_discussion_numbers
          /\ json_file' = json_file
          /\ md_file' = md_file
          /\ discussions_for_concatenation' = discussions_for_concatenation
          /\ IF only_contributors /\ walk < Len(contributor_logins)
             THEN pc' = "search" /\ walk' = walk + 1 /\ current_cursor' = None
             ELSE pc' = "concatenate"]_vars

\* The first contributor's walk failed on its second request, after a
\* discussion of its first page was processed.
C10_Witness ==
    /\ pc = "walk_end"
    /\ only_contributors
    /\ walk = 1
    /\ Len(search_log) = 2
    /\ LastAnswer.kind = "error"
    /\ processed_discussion_numbers # {}

\* C11: a failure of the initial contributor fetch ends the run, with no
\* search or detail request ever sent, exactly when --only-contributors is
\* set; without it the run goes on to the all-discussions walk with an empty
\* contributor list.
C11_ContributorFailure ==
    [][/\ ( pc = "contributors" /\ contributors_fetch' = "fail" )
          =>
          /\ only_contributors => pc' = "exit"
          /\ ~only_contributors =>
                /\ pc' = "search"
                /\ walk' = 0
                /\ contributor_logins' = <<>>
                /\ current_cursor' = None
       /\ pc' = "exit" =>
            /\ search_log' = <<>>
            /\ \A n \in Numbers : detail_requests'[n] = 0
       /\ pc = "exit" => pc' = "exit"]_vars

\* The contributor fetch failed and the all-discussions walk has sent a
\* search request.
C11_Witness ==
    /\ contributors_fetch = "fail"
    /\ ~only_contributors
    /\ walk = 0
    /\ contributor_logins = <<>>
    /\ search_log # <<>>

\* The arguments or the environment of the run are unusable.
BadSince == since # <<>> /\ ~ParseSinceToDate(since, now).ok

BadRepository == ~ParseRepoUrl(repository).ok

NoCredential == token \in {None, ""} /\ env_token \in {None, ""}

\* C12: a configuration error (an unparsable repository reference, a missing
\* credential, or a --since expression that fails date parsing) ends the run
\* before any network request is sent: the run never gets to the contributor
\* request, the first request of a run.
C12_ConfigAborts ==
    /\ BadSince => pc \in {"since", "exit"}
    /\ (BadSince \/ BadRepository \/ NoCredential) =>
          /\ pc \in {"since", "parser", "exit"}
          /\ contributors_fetch = "none"
          /\ search_log = <<>>
          /\ \A n \in Numbers : detail_requests[n] = 0

\* A run given a good --since and repository but no credential has ended.
C12_Witness ==
    /\ pc = "exit"
    /\ ~BadSince
    /\ ~BadRepository
    /\ NoCredential
    /\ since # <<>>
    /\ contributors_fetch = "none"

\* The twelve qualifiers in their order, each empty when its field is absent.
NonEmpty(part) == part # <<>>

InQuotes(s) == IF \E i \in 1..Len(s) : s[i] = " " THEN <<"\"">> \o s \o <<"\"">> ELSE s

LocationList(f) ==
    JoinWith(SelectSeq(<<(IF f.in_title THEN <<"title">> ELSE <<>>),
                         (IF f.in_body THEN <<"body">> ELSE <<>>),
                         (IF f.in_comments THEN <<"comments">> ELSE <<>>)>>,
                       NonEmpty),
             <<",">>)

DateForm(name, lower, upper) ==
    CASE lower # <<>> /\ upper # <<>> -> <<name>> \o lower \o <<"..">> \o upper
      [] lower # <<>> /\ upper = <<>> -> <<name, ">=">> \o lower
      [] lower = <<>> /\ upper # <<>> -> <<name, "<=">> \o upper
      [] OTHER -> <<>>

StateForm(flag, yes, no) ==
    CASE flag = "True" -> <<"is:", yes>>
      [] flag = "False" -> <<"is:", no>>
      [] OTHER -> <<>>

QualifierSlots(f) ==
    <<(<<"repo:", "octo", "/", "hello">>),
      (<<"is:discussion">>),
      (IF f.query_text = <<>> THEN <<>>
       ELSE IF LocationList(f) = <<>> THEN InQuotes(f.query_text)
       ELSE InQuotes(f.query_text) \o <<" ", "in:">> \o LocationList(f)),
      (IF f.author = <<>> THEN <<>> ELSE <<"author:">> \o f.author),
      (IF f.involves = <<>> THEN <<>> ELSE <<"involves:">> \o f.involves),
      (IF f.category = <<>> THEN <<>> ELSE <<"category:">> \o InQuotes(f.category)),
      (IF f.label = <<>> THEN <<>> ELSE <<"label:">> \o InQuotes(f.label)),
      StateForm(f.is_open, "open", "closed"),
      StateForm(f.is_answered, "answered", "unanswered"),
      StateForm(f.is_locked, "locked", "unlocked"),
      DateForm("created:", f.created_after, f.created_before),
      DateForm("updated:", f.updated_after, f.updated_before)>>

\* C13: the query a call builds is the single-space join of the qualifiers
\* present, in the order repository scope, discussion type, free text (with
\* the in: list of the selected locations in the order title, body,
\* comments), author, involves, category, label, open/closed,
\* answered/unanswered, locked/unlocked, created date, updated date; absent
\* fields contribute nothing, the empty filter gives the two base qualifiers
\* alone, and the query is never empty. (Stated of the calls that return.)
C13_QueryOrder ==
    (pc = "queried" /\ search_query.ok) =>
        /\ search_query.query =
              JoinWith(SelectSeq(QualifierSlots(search_filter), NonEmpty), <<" ">>)
        /\ search_query.query # <<>>
        /\ SubSeq(search_query.query, 1, 6) =
              <<"repo:", "octo", "/", "hello", " ", "is:discussion">>
        /\ search_filter = EmptyFilter => Len(search_query.query) = 6

\* A query of all twelve qualifiers was built, the text with an in: list.
C13_Witness ==
    /\ pc = "queried"
    /\ search_query.ok
    /\ \A i \in 1..12 : QualifierSlots(search_filter)[i] # <<>>
    /\ search_filter.in_body
    /\ ~search_filter.in_title

\* The place of a token in a string (0: not there).
PlaceOf(tok, s) ==
    IF \E i \in 1..Len(s) : s[i] = tok
    THEN CHOOSE i \in 1..Len(s) : s[i] = tok
    ELSE 0

\* The query holds the qualifier form, as one whole space-separated part,
\* or, when form is empty, does not hold the qualifier's name at all.
HoldsDateQualifier(q, name, form) ==
    LET i == PlaceOf(name, q) IN
    IF form = <<>> THEN i = 0
    ELSE /\ i > 1
         /\ q[i - 1] = " "
         /\ i + Len(form) - 1 <= Len(q)
         /\ SubSeq(q, i, i + Len(form) - 1) = form
         /\ i + Len(form) - 1 = Len(q) \/ q[i + Len(form)] = " "
         /\ Cardinality({j \in 1..Len(q) : q[j] = name}) = 1

\* C14: for the created-date and the updated-date qualifier each on its own,
\* both bounds give the inclusive range lower..upper, the lower bound alone
\* gives >=lower, the upper bound alone gives <=upper, and no bound gives no
\* qualifier. (Stated of the calls that return.)
C14_DateQualifiers ==
    (pc = "queried" /\ search_query.ok) =>
        LET f == search_filter
            q == search_query.query
            lo(a) == a # <<>>
        IN /\ HoldsDateQualifier(q, "created:",
                 IF lo(f.created_after) /\ lo(f.created_before)
                 THEN <<"created:">> \o f.created_after \o <<"..">> \o f.created_before
                 ELSE IF lo(f.created_after) THEN <<"created:", ">=">> \o f.created_after
                 ELSE IF lo(f.created_before) THEN <<"created:", "<=">> \o f.created_before
                 ELSE <<>>)
           /\ HoldsDateQualifier(q, "updated:",
                 IF lo(f.updated_after) /\ lo(f.updated_before)
                 THEN <<"updated:">> \o f.updated_after \o <<"..">> \o f.updated_before
                 ELSE IF lo(f.updated_after) THEN <<"updated:", ">=">> \o f.updated_after
                 ELSE IF lo(f.updated_before) THEN <<"updated:", "<=">> \o f.updated_before
                 ELSE <<>>)

\* A query was built from an upper created bound alone and a lower updated
\* bound alone.
C14_Witness ==
    /\ pc = "queried"
    /\ search_query.ok
    /\ search_filter.created_after = <<>>
    /\ search_filter.created_before # <<>>
    /\ search_filter.updated_after # <<>>
    /\ search_filter.updated_before = <<>>

\* The offset of one unit, in hours: 1 day, 1 hour, 1 week, 30 days, 365 days.
OffsetHours(u) ==
    CASE u \in {"d", "D"} -> 24
      [] u \in {"h", "H"} -> 1
      [] u \in {"w", "W"} -> 7 * 24
      [] u \in {"m", "M"} -> 30 * 24
      [] u \in {"y", "Y"} -> 365 * 24

\* The date of now_utc minus n units, as YYYY-MM-DD.
DateBefore(instant, n, u) ==
    Strftime(CivilFrom(2020, 1,
                       (instant.day * 24 + instant.hour - n * OffsetHours(u)) \div 24))

\* C15: for every relative expression, a number n followed by a unit of d,
\* h, w, m, y in either letter case, parsing returns the calendar date of
\* now_utc minus n times 1 day, 1 hour, 1 week, 30 days or 365 days,
\* truncated to the date.
C15_RelativeDate ==
    \A n \in 0..MaxSince, u \in {"d", "h", "w", "m", "y", "D", "H", "W", "M", "Y"} :
        (pc # "since" /\ since = <<DigitChars[n + 1], u>>) =>
            /\ since_error = "none"
            /\ since_date_str = DateBefore(now, n, u)

\* The expression 0d was parsed and raised an error.
C15_Witness ==
    /\ pc = "exit"
    /\ since = <<"0", "d">>
    /\ since_error = "UnknownUnit"

\* The string has the form YYYY-MM-DD.
DateShaped(s) ==
    /\ Len(s) = 10
    /\ \A i \in 1..10 : IF i \in {5, 8} THEN s[i] = "-" ELSE IsDigit(s[i])

\* The number two digits stand for.
TwoDigits(a, b) == 10 * DigitValue(a) + DigitValue(b)

\* The date-shaped string names a day of the calendar.
RealDate(s) ==
    LET y == 100 * TwoDigits(s[1], s[2]) + TwoDigits(s[3], s[4])
        m == TwoDigits(s[6], s[7])
        d == TwoDigits(s[9], s[10])
        leap == (y % 4 = 0 /\ y % 100 # 0) \/ y % 400 = 0
        lengths == <<31, IF leap THEN 29 ELSE 28, 31, 30, 31, 30, 31, 31, 30, 31, 30, 31>>
    IN y >= 1 /\ m \in 1..12 /\ d >= 1 /\ d <= lengths[m]

\* The string is one or more digits followed by one unit letter.
RelativeShaped(s) ==
    /\ Len(s) >= 2
    /\ \A i \in 1..(Len(s) - 1) : IsDigit(s[i])
    /\ s[Len(s)] \in {"d", "h", "w", "m", "y", "D", "H", "W", "M", "Y"}

\* C16: parsing succeeds exactly on a YYYY-MM-DD string that names a real
\* calendar date, returned unchanged, and on a relative expression of digits
\* and one unit letter; a YYYY-MM-DD-shaped string of an impossible date
\* fails with InvalidDate, and every other input fails with InvalidFormat.
C16_ParseOutcome ==
    (pc # "since" /\ since # <<>>) =>
        IF DateShaped(since)
        THEN IF RealDate(since)
             THEN since_error = "none" /\ since_date_str = since
             ELSE since_error = "InvalidDate"
        ELSE IF RelativeShaped(since)
             THEN since_error = "none" /\ since_date_str # <<>>
             ELSE since_error = "InvalidFormat"

\* A relative expression of digits and a unit letter was parsed and raised
\* an error.
C16_Witness ==
    /\ pc = "exit"
    /\ since = <<"0", "H">>
    /\ since_error # "none"

\* Where the literal-text guard of a formatted body ends for a reader: the
\* place of the first end sequence ]]>.
GuardEnd(s) ==
    CHOOSE k \in 1..(Len(s) - 2) :
        /\ SubSeq(s, k, k + 2) = <<"]", "]", ">">>
        /\ \A j \in 1..(k - 1) : SubSeq(s, j, j + 2) # <<"]", "]", ">">>

\* What a reader of the guarded body gets: the characters between the
\* opening of the guard and its end, taken literally.
GuardedText(s) == SubSeq(s, 2, GuardEnd(s) - 1)

\* A text with its runs of whitespace collapsed to single spaces, and none
\* at its ends.
RECURSIVE Collapsed(_)
Collapsed(s) ==
    IF s = <<>> THEN <<>>
    ELSE IF Head(s) \in {" ", "\n"}
         THEN IF Len(s) = 1 \/ s[2] \in {" ", "\n"}
              THEN Collapsed(Tail(s))
              ELSE <<" ">> \o Collapsed(Tail(s))
         ELSE <<Head(s)>> \o Collapsed(Tail(s))

Trimmed(s) == IF s # <<>> /\ Head(s) = " " THEN Tail(s) ELSE s

\* C17: for every body text, also one that contains the end sequence of the
\* literal-text guard, reading the guarded body that was emitted gives the
\* original text, unchanged but for runs of whitespace collapsed to single
\* spaces; and the guard ends where the emitted body ends, never earlier.
C17_RoundTrip ==
    pc = "formatted" =>
        /\ GuardEnd(body_cdata) = Len(body_cdata) - 2
        /\ GuardedText(body_cdata) = Trimmed(Collapsed(body_text))

\* A body that contains the end sequence was formatted, and what a reader
\* gets differs from it.
C17_Witness ==
    /\ pc = "formatted"
    /\ body_text = <<"a", "]", "]", ">">>
    /\ GuardedText(body_cdata) = <<"a", "]", "]", "&", "g", "t", ";">>

\* C18: a walk sends a further search request only after an answer that was
\* a page with items, reported a next page and carried an end cursor; a page
\* without items ends the walk at once, with no item processed and no
\* further request, even when it reports a next page and carries an end
\* cursor.
C18_EmptyPageEnds ==
    /\ \A i \in 1..(Len(search_log) - 1) :
          /\ search_log[i].kind = "page"
          /\ ~search_log[i].empty
          /\ search_log[i].has_next
          /\ search_log[i].end # None
    /\ (search_log # <<>> /\ LastAnswer.empty) =>
          /\ pc = "walk_end"
          /\ items = <<>>

\* A walk ended on its second answer, a page without items that reports a
\* next page and carries an end cursor.
C18_Witness ==
    /\ pc = "walk_end"
    /\ Len(search_log) = 2
    /\ LastAnswer.kind = "page"
    /\ LastAnswer.empty
    /\ LastAnswer.has_next
    /\ LastAnswer.end # None

\* C19, as stated: when producing or persisting the serialized text of a
\* discussion fails, the discussion's number is not in ProcessedSet
\* afterwards in this run.
C19_TextFailureUnmarked ==
    [][\A n \in Numbers :
         (Processing(n) /\ failures'.md > failures.md) =>
            n \notin processed_discussion_numbers']_vars

\* C19, amended: when producing or persisting the serialized text of a
\* discussion fails, the discussion's number is in ProcessedSet afterwards
\* all the same: it is added once the detail artifact is durable, whether
\* this run wrote it or found it, so the discussion is not taken up again in
\* this run; its text is not handed to the aggregation.
C19_TextFailureMarked ==
    [][\A n \in Numbers :
         (Processing(n) /\ failures'.md > failures.md) =>
            /\ n \in processed_discussion_numbers'
            /\ json_file'[n] # "absent"
            /\ discussions_for_concatenation' = discussions_for_concatenation]_vars

\* The text of a discussion whose detail artifact an earlier run left could
\* not be written, and the number is in ProcessedSet.
C19_Witness ==
    /\ failures.md = 1
    /\ \E n \in processed_discussion_numbers :
          /\ json_file[n] = "prior"
          /\ md_file[n] # "written"
          /\ md_file[n] # "prior"
          /\ detail_requests[n] = 1

\* How often the text of discussion n occurs in a sequence of texts.
Occurrences(n, texts) ==
    Cardinality({i \in 1..Len(texts) : texts[i] = <<"md", n>>})

\* The texts of the aggregate file, without the separators.
AggregateTexts ==
    SelectSeq(concatenated_md_file.content, LAMBDA t : t # <<"sep", 0>>)

\* C20, as stated: every discussion whose serialized text was produced and
\* persisted in the run is handed to the aggregation, so that the aggregate
\* file of the run holds the text of each such discussion exactly once, and
\* no other text.
C20_AllTextsAggregated ==
    pc = "done" =>
        \A n \in Numbers :
            Occurrences(n, AggregateTexts) = IF md_file[n] = "written" THEN 1 ELSE 0

\* C20, amended: a discussion whose serialized text was produced and
\* persisted in the run is handed to the aggregation exactly when its
\* details carry a creation timestamp that parses; a text without one is
\* left out with a warning. The aggregate file, when its write completes,
\* holds the text of each discussion handed over exactly once, and no other
\* text.
C20_StampedTextsAggregated ==
    /\ \A n \in Numbers :
          Occurrences(n, [i \in 1..Len(discussions_for_concatenation) |->
                            discussions_for_concatenation[i][2]])
            = IF md_file[n] = "written" /\ created_at_str[n] > 0 THEN 1 ELSE 0
    /\ (pc = "done" /\ concatenated_md_file.complete) =>
          \A n \in Numbers :
              Occurrences(n, AggregateTexts)
                = IF md_file[n] = "written" /\ created_at_str[n] > 0 THEN 1 ELSE 0

\* The run wrote two texts, one of them without a creation timestamp, and
\* its aggregate file holds the other alone.
C20_Witness ==
    /\ pc = "done"
    /\ concatenated_md_file.complete
    /\ Len(concatenated_md_file.content) = 1
    /\ \A n \in Numbers : md_file[n] = "written"
    /\ \E n \in Numbers : created_at_str[n] = 0

\* The query holds the string e from place i on, as the end of the query or
\* followed by a space.
HoldsAt(q, i, e) ==
    /\ i >= 1
    /\ i + Len(e) - 1 <= Len(q)
    /\ SubSeq(q, i, i + Len(e) - 1) = e
    /\ i + Len(e) - 1 = Len(q) \/ q[i + Len(e)] = " "

\* The value v as the query emits it when wrapped says whether it is put in
\* double quotes.
Emitted(v, wrapped) == IF wrapped THEN <<"\"">> \o v \o <<"\"">> ELSE v

\* The free text, the category name and the label name are each emitted as
\* Emitted(v, Wraps(v)): the free text as the third part of the query, the
\* names right after category: and label:.
EmitsValues(Wraps(_)) ==
    LET f == search_filter
        q == search_query.query
    IN /\ f.query_text # <<>> => HoldsAt(q, 8, Emitted(f.query_text, Wraps(f.query_text)))
       /\ f.category # <<>> =>
             /\ PlaceOf("category:", q) > 0
             /\ HoldsAt(q, PlaceOf("category:", q) + 1, Emitted(f.category, Wraps(f.category)))
       /\ f.label # <<>> =>
             /\ PlaceOf("label:", q) > 0
             /\ HoldsAt(q, PlaceOf("label:", q) + 1, Emitted(f.label, Wraps(f.label)))

HoldsWhitespace(v) == \E i \in 1..Len(v) : v[i] \in {" ", "\t"}

HoldsSpaceCharacter(v) == \E i \in 1..Len(v) : v[i] = " "

\* C21 (as stated): in the query a call builds, the free text, the category
\* name and the label name are each in double quotes exactly when the value
\* holds a whitespace character of any kind, and bare otherwise.
C21_QuotedOnWhitespace ==
    (pc = "queried" /\ search_query.ok) => EmitsValues(HoldsWhitespace)

\* C21 (amended): in the query a call builds, the free text, the category
\* name and the label name are each in double quotes exactly when the value
\* holds the space character; a value whose only whitespace is another
\* character, such as a tab, is emitted bare.
C21_QuotedOnSpace ==
    (pc = "queried" /\ search_query.ok) => EmitsValues(HoldsSpaceCharacter)

\* A query was built from a text without whitespace, a category with a
\* space and a label with a tab.
C21_Witness ==
    /\ pc = "queried"
    /\ search_query.ok
    /\ search_filter.query_text = <<"bug">>
    /\ HoldsSpaceCharacter(search_filter.category)
    /\ HoldsWhitespace(search_filter.label)
    /\ ~HoldsSpaceCharacter(search_filter.label)

\* The string is exactly YYYY-MM-DD: ten characters, digits and two hyphens.
StrictDate(v) ==
    /\ Len(v) = 10
    /\ \A i \in {1, 2, 3, 4, 6, 7, 9, 10} : v[i] \in {"0", "1", "2", "3", "4", "5", "6", "7", "8", "9"}
    /\ v[5] = "-"
    /\ v[8] = "-"

\* Exactly one of the two bounds is given.
OneBound(lower, upper) == (lower = <<>>) # (upper = <<>>)

\* The bound that is given, when exactly one is.
TheBound(lower, upper) == IF lower # <<>> THEN lower ELSE upper

\* C22: a call with exactly one updated bound that is not exactly
\* YYYY-MM-DD fails and posts no request; a call with both updated bounds
\* applies no validation and emits the range lower..upper whatever the two
\* strings are; the created bounds are never validated: no call fails but
\* one with exactly one updated bound, and every call that returns emits the
\* created qualifier of its created bounds, whatever they are.
C22_UpdatedValidation ==
    pc = "queried" =>
        LET f == search_filter
            q == search_query.query
        IN /\ (OneBound(f.updated_after, f.updated_before)
                /\ ~StrictDate(TheBound(f.updated_after, f.updated_before)))
                  => (~search_query.ok /\ ~search_query.posted)
           /\ (f.updated_after # <<>> /\ f.updated_before # <<>>)
                  => /\ search_query.ok
                     /\ HoldsDateQualifier(q, "updated:",
                            <<"updated:">> \o f.updated_after \o <<"..">> \o f.updated_before)
           /\ ~search_query.ok => OneBound(f.updated_after, f.updated_before)
           /\ search_query.ok =>
                  HoldsDateQualifier(q, "created:",
                      DateForm("created:", f.created_after, f.created_before))

\* A call was made with a lower updated bound alone that is a date followed
\* by a newline, and with a created bound that is no date.
C22_Witness ==
    /\ pc = "queried"
    /\ search_filter.updated_after = DateLine
    /\ search_filter.updated_before = <<>>
    /\ search_filter.created_before = NotADate
    /\ search_query.posted

\* A response with status 200 whose body carries an error list.
ErrorList(a) == a.status = 200 /\ a.errors

\* C23: a search or detail response with status 200 that carries an error
\* list is a failure, with or without data beside the list. The search
\* request ends as an error: the walk ends, no item is handed to the item
\* loop, no detail request is sent and no artifact changes. The detail
\* request ends as a failed fetch: no artifact is written for the
\* discussion, nothing is collected and its number is not marked.
C23_ErrorListIsFailure ==
    [][/\ ( /\ Len(search_log') = Len(search_log) + 1
            /\ ErrorList(search_answer') )
          =>
          /\ search_log'[Len(search_log')].kind = "error"
          /\ pc' = "walk_end"
          /\ items' = <<>>
          /\ detail_requests' = detail_requests
          /\ json_file' = json_file
          /\ md_file' = md_file
          /\ processed_discussion_numbers' = processed_discussion_numbers
          /\ discussions_for_concatenation' = discussions_for_concatenation
       /\ ( /\ detail_requests' # detail_requests
            /\ ErrorList(detail_answer') )
          =>
          /\ failures'.fetch = failures.fetch + 1
          /\ json_file' = json_file
          /\ md_file' = md_file
          /\ json_writes' = json_writes
          /\ md_writes' = md_writes
          /\ processed_discussion_numbers' = processed_discussion_numbers
          /\ discussions_for_concatenation' = discussions_for_concatenation]_vars

\* The detail request of the last summary of the first page was answered
\* with status 200, an error list and data, and so was the second search
\* request.
C23_Witness ==
    /\ pc = "walk_end"
    /\ Len(search_log) = 2
    /\ search_answer = [status |-> 200, errors |-> TRUE, data |-> TRUE]
    /\ detail_answer = [status |-> 200, errors |-> TRUE, data |-> TRUE]
    /\ failures.fetch = 1

StartedEmpty ==
    \A n \in Numbers : json_file[n] # "prior" /\ md_file[n] # "prior"

\* C25: in a run that started from an empty output location, at every
\* moment and after any mix of failed fetches and failed writes, a
\* discussion whose serialized-text file exists has its detail file too.
\* (A file exists when a write got as far as creating it.) The same holds of
\* a run that started from an output location where it held.
C25_TextOnlyWithDetail ==
    /\ StartedEmpty =>
          \A n \in Numbers : md_file[n] # "absent" => json_file[n] # "absent"
    /\ \A n \in Numbers : md_file[n] # "absent" => json_file[n] # "absent"

\* In a run that started empty, the write of a detail file failed after the
\* file was created, the summary was surfaced again and its serialized text
\* was written.
C25_Witness ==
    /\ StartedEmpty
    /\ \E n \in Numbers :
          /\ json_file[n] = "partial"
          /\ md_file[n] = "written"
          /\ failures.json = 1

====
